---- MODULE Spec2Model ----
(***************************************************************************)
(* Model of triangle-intersect.rs (src/src/main.rs): the f64 arithmetic    *)
(* the predicate is built on, the signed-volume predicate, the edge and    *)
(* triangle intersection tests, and main's vertex collection loop.         *)
(***************************************************************************)
EXTENDS Integers, Sequences, FiniteSets, TLC

VARIABLES pc, triangle_idx, vertex_idx, vertices, coords, prompt, writes,
          tris, output

vars == <<pc, triangle_idx, vertex_idx, vertices, coords, prompt, writes,
          tris, output>>

(***************************************************************************)
(* Bounds of the model.                                                    *)
(***************************************************************************)
\* longest input line, in whitespace-separated tokens
MaxTokens == 4
\* coordinates of the freely chosen triangle range over 0..MaxCoord
MaxCoord == 1

(***************************************************************************)
(* f64 values.  Every value the model computes before the final division   *)
(* is a small integer, on which f64 arithmetic is exact: such a value is   *)
(* the integer num together with its IEEE sign bit neg; for a nonzero      *)
(* value neg = (num < 0), and zero exists as +0.0 (neg = FALSE) and -0.0   *)
(* (neg = TRUE).  The quotient num / den of the final division keeps the   *)
(* sign bit and is zero exactly when num is.                               *)
(***************************************************************************)
F64(n) == [num |-> n, neg |-> n < 0]

NegZero == [num |-> 0, neg |-> TRUE]

\* IEEE 754 a + b, round to nearest: an exact zero sum of nonzero operands
\* is +0.0, a sum of two zeros is -0.0 only when both are -0.0
FAdd(a, b) ==
    LET n == a.num + b.num
    IN  [num |-> n,
         neg |-> IF n # 0 THEN n < 0
                 ELSE IF a.num = 0 /\ b.num = 0 THEN a.neg /\ b.neg
                 ELSE FALSE]

\* IEEE 754 -a: flips the sign bit, of zero too
FNeg(a) == [num |-> 0 - a.num, neg |-> ~a.neg]

\* IEEE 754 a - b = a + (-b): an exact zero difference of nonzero operands
\* is +0.0, a difference of two zeros is -0.0 only for (-0.0) - (+0.0)
FSub(a, b) ==
    LET n == a.num - b.num
    IN  [num |-> n,
         neg |-> IF n # 0 THEN n < 0
                 ELSE IF a.num = 0 /\ b.num = 0 THEN a.neg /\ ~b.neg
                 ELSE FALSE]

\* IEEE 754 a * b: the sign bit is the exclusive or of the operands' bits
FMul(a, b) == [num |-> a.num * b.num, neg |-> (a.neg # b.neg)]

\* IEEE 754 a / b for an integer a and a positive integer b: the quotient
\* num / den, its sign bit that of a
FDiv(a, b) == [num |-> a.num, den |-> b.num, neg |-> (a.neg # b.neg)]

\* f64::signum: 1.0 if the number is positive, +0.0 included, -1.0 if it is
\* negative, -0.0 included
signum(a) == IF a.neg THEN -1 ELSE 1

(***************************************************************************)
(* Vertex                                                                  *)
(***************************************************************************)
Vertex_new(x, y, z) == [x |-> x, y |-> y, z |-> z]

subtract(self, v) ==
    [x |-> FSub(self.x, v.x), y |-> FSub(self.y, v.y), z |-> FSub(self.z, v.z)]

\* cross_product with the sign of the y component left out
cross_product_no_negation(self, v) ==
    [x |-> FSub(FMul(self.y, v.z), FMul(self.z, v.y)),
     y |-> FSub(FMul(self.x, v.z), FMul(self.z, v.x)),
     z |-> FSub(FMul(self.x, v.y), FMul(self.y, v.x))]

cross_product(self, v) ==
    [x |-> FSub(FMul(self.y, v.z), FMul(self.z, v.y)),
     y |-> FNeg(FSub(FMul(self.x, v.z), FMul(self.z, v.x))),
     z |-> FSub(FMul(self.x, v.y), FMul(self.y, v.x))]

dot_product(self, v) ==
    FAdd(FAdd(FMul(self.x, v.x), FMul(self.y, v.y)), FMul(self.z, v.z))

(***************************************************************************)
(* Edge, Triangle (arrays are functions on 0..n-1, as in the source)       *)
(***************************************************************************)
Edge_new(u, v) == [vertices |-> (0 :> u) @@ (1 :> v)]

tetrahedran_signed_volume(a, b, c, d) ==
    FDiv(dot_product(cross_product(subtract(a, d), subtract(b, d)),
                     subtract(c, d)),
         F64(6))

\* Triangle::new with the third edge built as (w, v) instead of (w, u)
Triangle_new_wrong_edge(u, v, w) ==
    [vertices |-> (0 :> u) @@ (1 :> v) @@ (2 :> w),
     edges    |-> (0 :> Edge_new(u, v)) @@ (1 :> Edge_new(v, w)) @@ (2 :> Edge_new(w, v))]

Triangle_new(u, v, w) ==
    [vertices |-> (0 :> u) @@ (1 :> v) @@ (2 :> w),
     edges    |-> (0 :> Edge_new(u, v)) @@ (1 :> Edge_new(v, w)) @@ (2 :> Edge_new(w, u))]

\* the two arrays edge_intersect fills before it compares signs
sv_e_arr(self, e) ==
    LET sv(i) == tetrahedran_signed_volume(self.vertices[0], self.vertices[1],
                     self.vertices[2], e.vertices[i])
    IN  (0 :> sv(0)) @@ (1 :> sv(1))

sv_t_arr(self, e) ==
    LET sv(i) == tetrahedran_signed_volume(self.edges[i].vertices[0],
                     self.edges[i].vertices[1], e.vertices[0], e.vertices[1])
    IN  (0 :> sv(0)) @@ (1 :> sv(1)) @@ (2 :> sv(2))

\* the value edge_intersect returns for the two arrays
compare_signs(sve, svt) ==
    /\ signum(sve[0]) # signum(sve[1])
    /\ signum(svt[0]) = signum(svt[1])
    /\ signum(svt[1]) = signum(svt[2])
    /\ signum(svt[2]) = signum(svt[0])

edge_intersect(self, e) == compare_signs(sv_e_arr(self, e), sv_t_arr(self, e))

\* intersect without its second loop
intersect_one_way(self, t) ==
    IF \E i \in 0..2 : edge_intersect(self, t.edges[i]) THEN TRUE
    ELSE FALSE

intersect(self, t) ==
    IF \E i \in 0..2 : edge_intersect(self, t.edges[i]) THEN TRUE
    ELSE IF \E i \in 0..2 : edge_intersect(t, self.edges[i]) THEN TRUE
    ELSE FALSE

(***************************************************************************)
(* main: the collection loop and the evaluation                            *)
(***************************************************************************)
\* the integers whose decimal spelling the model feeds to str::parse
ParseDomain == -1 .. 11

\* the decimal spelling of each of them
Spelling == [n \in ParseDomain |-> ToString(n)]

\* the tokens that spell a number, and the f64 each of them parses to
NumberTokens == {Spelling[n] : n \in ParseDomain} \cup {"-0"}

ParsedValue ==
    [tok \in NumberTokens |->
        IF tok = "-0" THEN NegZero
        ELSE F64(CHOOSE n \in ParseDomain : Spelling[n] = tok)]

\* str::parse::<f64> on one token: Ok(value) as <<value>>, Err as <<>>
parse(tok) == IF tok \in NumberTokens THEN <<ParsedValue[tok]>> ELSE <<>>

\* the token loop with `break` in place of `continue`
RECURSIVE coord_vec_break(_)
coord_vec_break(line) ==
    IF line = <<>> THEN <<>>
    ELSE IF parse(Head(line)) = <<>> THEN <<>>
    ELSE parse(Head(line)) \o coord_vec_break(Tail(line))

\* the coord_vec the token loop builds: the parsed tokens in order, the
\* unparseable ones skipped
RECURSIVE coord_vec(_)
coord_vec(line) ==
    IF line = <<>> THEN <<>>
    ELSE parse(Head(line)) \o coord_vec(Tail(line))

\* the slot computed from a vertex_idx taken as zero-based
slot_index_zero_based(t_idx, v_idx) == ((t_idx - 1) * 3) + v_idx

\* the slot of the vertices array the loop writes
slot_index(t_idx, v_idx) == ((t_idx - 1) * 3) + (v_idx - 1)

RECURSIVE SeqsUpTo(_, _)
SeqsUpTo(S, n) ==
    IF n = 0 THEN {<<>>}
    ELSE LET shorter == SeqsUpTo(S, n - 1)
         IN  shorter \cup {Append(s, x) : s \in {q \in shorter : Len(q) = n - 1}, x \in S}

\* the lines the operator types: up to MaxTokens tokens, each the spelling
\* of one number or a word that is no number
InputLines ==
    SeqsUpTo({"1", "abc"}, MaxTokens) \cup SeqsUpTo({"2", "1e"}, MaxTokens)

Init ==
    /\ pc = "loop"
    /\ triangle_idx = 1
    /\ vertex_idx = 1
    /\ vertices = [i \in 0..5 |-> Vertex_new(F64(0), F64(0), F64(0))]
    /\ coords = <<>>
    /\ prompt = <<>>
    /\ writes = <<>>
    /\ tris = <<>>
    /\ output = <<>>

\* one iteration of `while triangle_idx <= 2`: prompt, read a line, parse
\* its tokens, and either `continue` or store the vertex and advance
main_loop_iteration ==
    /\ pc = "loop"
    /\ \E line \in InputLines :
         LET cv == coord_vec(line)
             slot == slot_index(triangle_idx, vertex_idx)
         IN  /\ prompt' = <<vertex_idx, triangle_idx>>
             /\ coords' = line
             /\ IF Len(cv) # 3
                THEN UNCHANGED <<pc, triangle_idx, vertex_idx, vertices, writes>>
                ELSE /\ vertices' = [vertices EXCEPT ![slot] = Vertex_new(cv[1], cv[2], cv[3])]
                     /\ writes' = Append(writes, [slot |-> slot, vertex |-> Vertex_new(cv[1], cv[2], cv[3])])
                     /\ IF vertex_idx + 1 > 3
                        THEN /\ triangle_idx' = triangle_idx + 1
                             /\ vertex_idx' = 1
                             /\ pc' = IF triangle_idx + 1 <= 2 THEN "loop" ELSE "eval"
                        ELSE /\ vertex_idx' = vertex_idx + 1
                             /\ UNCHANGED <<triangle_idx, pc>>
    /\ UNCHANGED <<tris, output>>

\* after the loop: build t1 and t2, evaluate t1.intersect(&t2), print
main_evaluate ==
    /\ pc = "eval"
    /\ LET t1 == Triangle_new(vertices[0], vertices[1], vertices[2])
           t2 == Triangle_new(vertices[3], vertices[4], vertices[5])
       IN  /\ tris' = <<t1, t2>>
           /\ output' = Append(output, IF intersect(t1, t2) THEN "yes" ELSE "no")
    /\ pc' = "done"
    /\ UNCHANGED <<triangle_idx, vertex_idx, vertices, coords, prompt, writes>>

Next == main_loop_iteration \/ main_evaluate

Spec == Init /\ [][Next]_vars

(***************************************************************************)
(* The predicate on its own: main at the point where the loop has exited   *)
(* with six accepted vertices, for a bounded choice of those vertices.     *)
(***************************************************************************)
\* triangles given by integer coordinates <<x, y, z>>
RefTriangles ==
    { << <<1, 0, 0>>, <<0, 1, 0>>, <<0, 0, 1>> >>,
      << <<0, 0, 0>>, <<1, 1, 0>>, <<1, 1, 1>> >>,
      << <<0, 0, 2>>, <<1, 0, 2>>, <<0, 1, 2>> >> }

GridPoints == (0..MaxCoord) \X (0..MaxCoord) \X (0..MaxCoord)

GridTriangles == GridPoints \X GridPoints \X GridPoints

\* the two examples of the specification, in both orders
CrossingT1 == << <<0, 0, 0>>, <<2, 0, 0>>, <<0, 2, 0>> >>
CrossingT2 == << <<1, -1, -1>>, <<1, -1, 1>>, <<1, 1, 0>> >>
DisjointT1 == << <<0, 0, 0>>, <<1, 0, 0>>, <<0, 1, 0>> >>
DisjointT2 == << <<10, 10, 10>>, <<11, 10, 10>>, <<10, 11, 10>> >>

ExamplePairs ==
    { <<CrossingT1, CrossingT2>>, <<CrossingT2, CrossingT1>>,
      <<DisjointT1, DisjointT2>>, <<DisjointT2, DisjointT1>> }

TrianglePairs ==
    (RefTriangles \X GridTriangles) \cup (GridTriangles \X RefTriangles)
        \cup ExamplePairs

\* the line that spells the point p, and the vertex main stores for it
LineOf(p) == <<Spelling[p[1]], Spelling[p[2]], Spelling[p[3]]>>

VertexOf(p) ==
    LET cv == coord_vec(LineOf(p)) IN Vertex_new(cv[1], cv[2], cv[3])

\* a triangle in the plane x = y that cuts through the grid, against every
\* grid triangle in both orders, and the examples
CrossTriangles == { << <<0, 0, 1>>, <<1, 1, -1>>, <<2, 2, 0>> >> }

CrossPairs ==
    (CrossTriangles \X GridTriangles) \cup (GridTriangles \X CrossTriangles)
        \cup ExamplePairs

\* main with the loop just left, the six accepted lines spelling pair
LoopLeftWith(pairs) ==
    /\ pc = "eval"
    /\ triangle_idx = 3
    /\ vertex_idx = 1
    /\ \E pair \in pairs :
         LET vs == [i \in 0..5 |-> IF i < 3 THEN VertexOf(pair[1][i + 1])
                                   ELSE VertexOf(pair[2][i - 2])]
         IN  /\ vertices = vs
             /\ coords = LineOf(pair[2][3])
             /\ writes = [k \in 1..6 |-> [slot |-> k - 1, vertex |-> vs[k - 1]]]
    /\ prompt = <<3, 2>>
    /\ tris = <<>>
    /\ output = <<>>

InitPred == LoopLeftWith(TrianglePairs)

NextPred == main_evaluate

SpecPred == InitPred /\ [][NextPred]_vars

InitCross == LoopLeftWith(CrossPairs)

SpecCross == InitCross /\ [][NextPred]_vars

(***************************************************************************)
(* Exact geometry on the stored inputs.  The inputs are integers, so the   *)
(* real-number quantities of the claims are computed in the integers.      *)
(***************************************************************************)
IPoint(v) == <<v.x.num, v.y.num, v.z.num>>

ISub(a, b) == <<a[1] - b[1], a[2] - b[2], a[3] - b[3]>>

ICross(a, b) ==
    <<a[2] * b[3] - a[3] * b[2], a[3] * b[1] - a[1] * b[3], a[1] * b[2] - a[2] * b[1]>>

IDot(a, b) == a[1] * b[1] + a[2] * b[2] + a[3] * b[3]

\* six times the signed volume of the tetrahedron (a, b, c, d)
IDet(a, b, c, d) == IDot(ICross(ISub(a, d), ISub(b, d)), ISub(c, d))

\* the three-way sign of a real number: negative, zero, positive
Sign3(n) == IF n < 0 THEN -1 ELSE IF n = 0 THEN 0 ELSE 1

Sign3F(f) == Sign3(f.num)

\* the triangles main was given, as triples of integer points
InT1 == <<IPoint(vertices[0]), IPoint(vertices[1]), IPoint(vertices[2])>>
InT2 == <<IPoint(vertices[3]), IPoint(vertices[4]), IPoint(vertices[5])>>

Answer == output[1] = "yes"

NonDegenerate(T) == ICross(ISub(T[2], T[1]), ISub(T[3], T[1])) # <<0, 0, 0>>

\* the segment p0 p1 has its endpoints strictly on opposite sides of the
\* plane of T and meets the plane strictly inside T.  With d0, d1 the
\* orientations of the endpoints and D = d0 - d1, the meeting point X
\* satisfies D * X = D * p0 + d0 * (p1 - p0); X is strictly inside T when it
\* is strictly to the same side of the three edges as the normal n says.
StrictlyCrosses(T, p0, p1) ==
    LET d0 == IDet(T[1], T[2], T[3], p0)
        d1 == IDet(T[1], T[2], T[3], p1)
        D  == d0 - d1
        n  == ICross(ISub(T[2], T[1]), ISub(T[3], T[1]))
        DX == [k \in 1..3 |-> D * p0[k] + d0 * (p1[k] - p0[k])]
        side(a, b) == IDot(ICross(ISub(b, a), [k \in 1..3 |-> DX[k] - D * a[k]]), n) * D
    IN  /\ d0 * d1 < 0
        /\ side(T[1], T[2]) > 0
        /\ side(T[2], T[3]) > 0
        /\ side(T[3], T[1]) > 0

SomeEdgeStrictlyCrosses(T, U) ==
    \/ StrictlyCrosses(T, U[1], U[2])
    \/ StrictlyCrosses(T, U[2], U[3])
    \/ StrictlyCrosses(T, U[3], U[1])

\* the axis-aligned bounding boxes of T and U are disjoint
BoxesDisjoint(T, U) ==
    \E k \in 1..3 :
        \/ \A i, j \in 1..3 : T[i][k] < U[j][k]
        \/ \A i, j \in 1..3 : U[j][k] < T[i][k]

\* T and U have exactly one vertex in common, T[i] = U[j], and the two
\* other vertices of U lie strictly on one side of the plane of T, so that
\* U meets that plane, and with it T, in the common vertex only
TouchAtVertexOnly(T, U) ==
    /\ Cardinality({ij \in (1..3) \X (1..3) : T[ij[1]] = U[ij[2]]}) = 1
    /\ \E j \in 1..3 :
         /\ \E i \in 1..3 : T[i] = U[j]
         /\ \A k \in (1..3) \ {j} : IDet(T[1], T[2], T[3], U[k]) # 0
         /\ \A k, l \in (1..3) \ {j} :
              Sign3(IDet(T[1], T[2], T[3], U[k])) = Sign3(IDet(T[1], T[2], T[3], U[l]))

Permutations3 ==
    { <<1, 2, 3>>, <<1, 3, 2>>, <<2, 1, 3>>, <<2, 3, 1>>, <<3, 1, 2>>, <<3, 2, 1>> }

Relabel(t, p) ==
    Triangle_new(t.vertices[p[1] - 1], t.vertices[p[2] - 1], t.vertices[p[3] - 1])

(***************************************************************************)
(* Claims                                                                  *)
(***************************************************************************)

\* the six edge tests of intersect: the receiver, then the edge
EdgeTests ==
    {<<tris[1], tris[2].edges[i]>> : i \in 0..2} \cup
    {<<tris[2], tris[1].edges[i]>> : i \in 0..2}

\* C1: edge_intersect(T, E) is true exactly when the three-way signs
\* (negative, zero, positive; zero a category of its own) of sv_e[0] and
\* sv_e[1] differ and those of sv_t[0], sv_t[1], sv_t[2] are all equal.
C1_ThreeWaySign ==
    pc = "done" =>
        \A te \in EdgeTests :
            LET T == te[1]
                E == te[2]
                sve(i) == tetrahedran_signed_volume(T.vertices[0], T.vertices[1],
                              T.vertices[2], E.vertices[i])
                svt(i) == tetrahedran_signed_volume(T.edges[i].vertices[0],
                              T.edges[i].vertices[1], E.vertices[0], E.vertices[1])
            IN  edge_intersect(T, E) =
                  (/\ Sign3F(sve(0)) # Sign3F(sve(1))
                   /\ Sign3F(svt(0)) = Sign3F(svt(1))
                   /\ Sign3F(svt(1)) = Sign3F(svt(2)))

\* C2: t1.intersect(t2) is true exactly when at least one of the six edge
\* tests holds: t1.edge_intersect(e) for an edge e of t2, or
\* t2.edge_intersect(e) for an edge e of t1, the edges of a triangle being
\* (v0,v1), (v1,v2), (v2,v0).
C2_SixEdgeTests ==
    pc = "done" =>
        LET Test(T, a, b) == edge_intersect(T, Edge_new(vertices[a], vertices[b]))
        IN  Answer = (\/ Test(tris[1], 3, 4)
                      \/ Test(tris[1], 4, 5)
                      \/ Test(tris[1], 5, 3)
                      \/ Test(tris[2], 0, 1)
                      \/ Test(tris[2], 1, 2)
                      \/ Test(tris[2], 2, 0))

\* C2 witness: the answer is yes although no edge of t2 crosses t1; the
\* crossing was found by the second loop.
C2_Witness ==
    /\ pc = "done"
    /\ Answer
    /\ \A i \in 0..2 : ~edge_intersect(tris[1], tris[2].edges[i])

\* C3: symmetry, t1.intersect(t2) = t2.intersect(t1).
C3_Symmetry ==
    pc = "done" => (Answer = intersect(tris[2], tris[1]))

\* C3 witness: two different triangles answered yes, the crossing edge
\* being one of t2's, so that the swapped call finds it in its second loop.
C3_Witness ==
    /\ pc = "done"
    /\ Answer
    /\ tris[1] # tris[2]
    /\ \A i \in 0..2 : ~edge_intersect(tris[2], tris[1].edges[i])

\* C4: relabeling invariance: for each of the six permutations p of t1's
\* vertices, relabel(t1, p).intersect(t2) = t1.intersect(t2) and
\* t2.intersect(relabel(t1, p)) = t2.intersect(t1), zero signed volumes
\* included.
C4_RelabelInvariant ==
    pc = "done" =>
        \A p \in Permutations3 :
            /\ intersect(Relabel(tris[1], p), tris[2]) = Answer
            /\ intersect(tris[2], Relabel(tris[1], p)) = intersect(tris[2], tris[1])

\* C5: a call edge_intersect(T, E) in which one of the five signed
\* volumes is exactly zero returns false.
C5_ZeroVolumeIsFalse ==
    pc = "done" =>
        \A te \in EdgeTests :
            (\/ \E i \in 0..1 : sv_e_arr(te[1], te[2])[i].num = 0
             \/ \E i \in 0..2 : sv_t_arr(te[1], te[2])[i].num = 0)
                => ~edge_intersect(te[1], te[2])

\* C6: two non-degenerate triangles whose only common point is one shared
\* vertex are reported as not intersecting.
C6_SharedVertexIsFalse ==
    (/\ pc = "done"
     /\ NonDegenerate(InT1)
     /\ NonDegenerate(InT2)
     /\ (TouchAtVertexOnly(InT1, InT2) \/ TouchAtVertexOnly(InT2, InT1)))
        => ~Answer

\* C7: when an edge of one triangle strictly crosses the interior of the
\* other, intersect is true with either triangle as the receiver; the
\* specification's crossing example answers yes.
C7_ClearCrossing ==
    pc = "done" =>
        /\ (SomeEdgeStrictlyCrosses(InT1, InT2) \/ SomeEdgeStrictlyCrosses(InT2, InT1))
              => (Answer /\ intersect(tris[2], tris[1]))
        /\ (<<InT1, InT2>> = <<CrossingT1, CrossingT2>>) => Answer

\* C7 witness: the specification's crossing example has been evaluated, and
\* an edge of its first triangle strictly crosses the second.
C7_Witness ==
    /\ pc = "done"
    /\ <<InT1, InT2>> = <<CrossingT1, CrossingT2>>
    /\ SomeEdgeStrictlyCrosses(InT2, InT1)
    /\ Answer

\* C8: triangles with disjoint axis-aligned bounding boxes, degenerate ones
\* included, are reported as not intersecting.
C8_DisjointBoxesIsFalse ==
    (pc = "done" /\ BoxesDisjoint(InT1, InT2)) => ~Answer

\* C9: an iteration of the collection loop accepts its line exactly when
\* three of its tokens parse as numbers, unparseable tokens being skipped; a
\* rejected line leaves triangle_idx, vertex_idx and vertices unchanged and
\* the loop running, so that the same vertex is prompted again; an accepted
\* line writes the one slot of the prompted vertex and advances.
C9_InputRetry ==
    [][pc = "loop" =>
        LET nums == SelectSeq(coords', LAMBDA tok : parse(tok) # <<>>)
            slot == ((triangle_idx - 1) * 3) + (vertex_idx - 1)
        IN  /\ prompt' = <<vertex_idx, triangle_idx>>
            /\ IF Len(nums) = 3
               THEN /\ vertices'[slot] = Vertex_new(parse(nums[1])[1],
                                             parse(nums[2])[1], parse(nums[3])[1])
                    /\ \A i \in 0..5 : i # slot => vertices'[i] = vertices[i]
                    /\ Len(writes') = Len(writes) + 1
                    /\ <<triangle_idx', vertex_idx'>> =
                          IF vertex_idx = 3 THEN <<triangle_idx + 1, 1>>
                          ELSE <<triangle_idx, vertex_idx + 1>>
               ELSE /\ UNCHANGED <<triangle_idx, vertex_idx, vertices, writes>>
                    /\ pc' = "loop"]_vars

\* C9 witness: the last line had four tokens of which three parsed, and it
\* was accepted: the loop has moved on from the vertex it prompted for.
C9_Witness ==
    /\ Len(coords) = 4
    /\ Len(SelectSeq(coords, LAMBDA tok : parse(tok) # <<>>)) = 3
    /\ writes # <<>>
    /\ prompt # <<vertex_idx, triangle_idx>>

\* C10: the loop keeps 1 <= vertex_idx <= 3 and 1 <= triangle_idx <= 3; the
\* slots written are 0, 1, ..., 5 in this order, each once, the next one
\* being (triangle_idx-1)*3 + (vertex_idx-1); the loop runs exactly as long
\* as fewer than six lines have been accepted; the predicate is evaluated
\* and its result printed once, only after six accepted lines, on t1 built
\* from the first three accepted vertices and t2 from the last three.
C10_LoopDiscipline ==
    /\ vertex_idx \in 1..3
    /\ triangle_idx \in 1..3
    /\ Len(writes) <= 6
    /\ \A k \in 1..Len(writes) :
         writes[k].slot = k - 1 /\ vertices[k - 1] = writes[k].vertex
    /\ Len(writes) = ((triangle_idx - 1) * 3) + (vertex_idx - 1)
    /\ (pc = "loop") = (Len(writes) < 6)
    /\ (pc = "done") = (Len(output) = 1)
    /\ (pc # "done") => (output = <<>> /\ tris = <<>>)
    /\ (pc = "done") =>
         /\ tris = <<Triangle_new(writes[1].vertex, writes[2].vertex, writes[3].vertex),
                     Triangle_new(writes[4].vertex, writes[5].vertex, writes[6].vertex)>>
         /\ Answer = intersect(tris[1], tris[2])

\* C10 witness: the result has been printed after six accepted lines that
\* were not all the same vertex.
C10_Witness ==
    /\ pc = "done"
    /\ Len(writes) = 6
    /\ writes[1].vertex # writes[4].vertex
    /\ writes[2].vertex # writes[3].vertex

====
